---- MODULE Spec2Model ----
(***************************************************************************)
(* A model of gokv/postgres: a key/value Store over one PostgreSQL table   *)
(* (k TEXT PRIMARY KEY, v jsonb NOT NULL), reached through six prepared    *)
(* statements.                                                             *)
(*                                                                         *)
(* The table is a function from the keys that have a row to the jsonb      *)
(* datum of the row.  Values travel as the caller's String type, are       *)
(* turned into JSON text by MarshalJSON, parsed by the jsonb column,       *)
(* rendered back as JSON text by the column and parsed by UnmarshalJSON.   *)
(***************************************************************************)
EXTENDS Integers, Sequences, FiniteSets, TLC

VARIABLES
    table,      \* the rows of the table: [present keys -> jsonb datum]
    stmt,       \* the six statement handles of the Store: "nil", "open", "closed"
    last,       \* the last call on the Store: its arguments and what it returned
    lastWrite,  \* history: per key, the last statement that wrote its row
    deleted,    \* history: keys whose row a Delete removed and nobody re-inserted
    prepLog,    \* the statements db.Prepare was asked for by the last New, in order
    closeLog,   \* the stmt.Close() calls of the last Store.Close, in order: [h, err]
    closeErr,   \* what the last Store.Close returned
    released,   \* per handle, how many times stmt.Close() was called on it
    kpc,        \* the key enumeration: "idle", "run" (worker at work), "done"
    kfault,     \* what the enumeration was made to run into
    cursor,     \* the keys the enumeration's row cursor has yet to deliver
    keyCh,      \* the unbuffered key stream: the key the worker is sending, if any
    errCh,      \* the buffered error stream
    chClosed,   \* both streams are closed
    got,        \* the keys the consumer has received, in order
    gotErrs,    \* the errors the consumer has received, in order
    coll,       \* the last GetAll: the result order, the failure, the collection
    procs       \* the concurrent callers: where each is in its call, and its result

enumVars == <<kpc, kfault, cursor, keyCh, errCh, chClosed, got, gotErrs>>

callVars == <<coll, procs>>

vars == <<table, stmt, last, lastWrite, deleted, prepLog, closeLog, closeErr, released,
          kpc, kfault, cursor, keyCh, errCh, chClosed, got, gotErrs, coll, procs>>

----------------------------------------------------------------------------
(* Bounds and input domains *)

NumKeys == 2

\* The key strings (in the code: UUIDs from uuid.New(), or caller-chosen text).
KeySet == 1..NumKeys

\* Sample values of the caller's String type: the empty string, a plain one,
\* and one made of the characters the codecs escape.
Strings == { <<>>, <<"a">>, <<"\"", "<", "\\">> }

\* What the caller's decode target holds before a Get: the zero String
\* (var v String) or an earlier value.
Targets == { <<>>, <<"a">> }

\* The (value, fault) inputs of a write. A call can run into nothing ("none"),
\* a json.Marshaler whose MarshalJSON returns an error ("marshal"), or the
\* driver failing the round trip ("driver"): every value on a healthy call,
\* and one value for each fault, whose outcome does not depend on the value.
WriteInputs ==
    {<<v, "none">> : v \in Strings} \cup {<< <<>>, "marshal" >>, << <<"a">>, "driver" >>}

Nil == "nil"
ErrNoRows == "store.ErrNoRows"
ErrMarshal == "marshal error"
ErrDriver == "driver error"
ErrDuplicateKey == "pq: duplicate key value violates unique constraint"
ErrInvalidJSON == "pq: invalid input syntax for type json"
ErrStmtClosed == "sql: statement is closed"
ErrSyntax == "json: cannot unmarshal"

----------------------------------------------------------------------------
(* The value codec: String.MarshalJSON / String.UnmarshalJSON and jsonb *)

\* encoding/json escapes the quote, the backslash and (HTML-safe) '<'.
GoEscape(c) ==
    IF c = "\"" THEN <<"\\", "\"">>
    ELSE IF c = "\\" THEN <<"\\", "\\">>
    ELSE IF c = "<" THEN <<"\\", "u", "0", "0", "3", "c">>
    ELSE <<c>>

RECURSIVE GoEscapeAll(_)
GoEscapeAll(s) ==
    IF s = <<>> THEN <<>> ELSE GoEscape(Head(s)) \o GoEscapeAll(Tail(s))

\* String.MarshalJSON: json.Marshal(string(s)).
MarshalJSON(s) == <<"\"">> \o GoEscapeAll(s) \o <<"\"">>

\* The body of a JSON string literal (between the quotes) is well formed.
RECURSIVE ValidBody(_)
ValidBody(b) ==
    IF b = <<>> THEN TRUE
    ELSE IF b[1] = "\"" THEN FALSE
    ELSE IF b[1] = "\\" THEN
        IF Len(b) >= 2 /\ b[2] \in {"\"", "\\"}
        THEN ValidBody(SubSeq(b, 3, Len(b)))
        ELSE IF Len(b) >= 6 /\ SubSeq(b, 2, 6) = <<"u", "0", "0", "3", "c">>
        THEN ValidBody(SubSeq(b, 7, Len(b)))
        ELSE FALSE
    ELSE ValidBody(Tail(b))

\* The characters a well-formed body stands for.
RECURSIVE Unescape(_)
Unescape(b) ==
    IF b = <<>> THEN <<>>
    ELSE IF b[1] = "\\" THEN
        IF b[2] \in {"\"", "\\"}
        THEN <<b[2]>> \o Unescape(SubSeq(b, 3, Len(b)))
        ELSE <<"<">> \o Unescape(SubSeq(b, 7, Len(b)))
    ELSE <<b[1]>> \o Unescape(Tail(b))

IsJSONString(b) ==
    /\ Len(b) >= 2
    /\ b[1] = "\""
    /\ b[Len(b)] = "\""
    /\ ValidBody(SubSeq(b, 2, Len(b) - 1))

\* String.UnmarshalJSON: json.Unmarshal(data, &str); *s = String(str).
\* On an error the target keeps its value.
UnmarshalJSON(b, target) ==
    IF IsJSONString(b)
    THEN [err |-> Nil, target |-> Unescape(SubSeq(b, 2, Len(b) - 1))]
    ELSE [err |-> ErrSyntax, target |-> target]

\* The jsonb column: the text is parsed on the way in ...
JsonbIn(b) == Unescape(SubSeq(b, 2, Len(b) - 1))

\* ... and rendered on the way out, escaping only the quote and the backslash.
PgEscape(c) ==
    IF c = "\"" THEN <<"\\", "\"">>
    ELSE IF c = "\\" THEN <<"\\", "\\">>
    ELSE <<c>>

RECURSIVE PgEscapeAll(_)
PgEscapeAll(d) ==
    IF d = <<>> THEN <<>> ELSE PgEscape(Head(d)) \o PgEscapeAll(Tail(d))

JsonbOut(d) == <<"\"">> \o PgEscapeAll(d) \o <<"\"">>

----------------------------------------------------------------------------
(* The six prepared statements, as the table transformations they are *)

StmtOrder == <<"getStmt", "getAllStmt", "addStmt", "setStmt", "updateStmt", "deleteStmt">>

StmtNames == {StmtOrder[i] : i \in DOMAIN StmtOrder}

EmptyTable == [x \in {} |-> <<>>]

Put(t, k, d) == [x \in DOMAIN t \cup {k} |-> IF x = k THEN d ELSE t[x]]

Remove(t, k) == [x \in DOMAIN t \ {k} |-> t[x]]

\* SELECT v FROM t WHERE k=$1: the rows of the result.
SelectByKey(t, k) == IF k \in DOMAIN t THEN << JsonbOut(t[k]) >> ELSE << >>

\* INSERT INTO t (k, v) VALUES ($1, $2)
InsertRow(t, k, b) ==
    IF ~IsJSONString(b) THEN [table |-> t, n |-> 0, err |-> ErrInvalidJSON]
    ELSE IF k \in DOMAIN t THEN [table |-> t, n |-> 0, err |-> ErrDuplicateKey]
    ELSE [table |-> Put(t, k, JsonbIn(b)), n |-> 1, err |-> Nil]

\* The upsert with ON CONFLICT (k) DO NOTHING: a present row keeps its value.
UpsertRowDoNothing(t, k, b) ==
    IF ~IsJSONString(b) THEN [table |-> t, n |-> 0, err |-> ErrInvalidJSON]
    ELSE IF k \in DOMAIN t THEN [table |-> t, n |-> 0, err |-> Nil]
    ELSE [table |-> Put(t, k, JsonbIn(b)), n |-> 1, err |-> Nil]

\* INSERT INTO t (k, v) VALUES ($1, $2) ON CONFLICT (k) DO UPDATE SET v=$2
UpsertRow(t, k, b) ==
    IF ~IsJSONString(b) THEN [table |-> t, n |-> 0, err |-> ErrInvalidJSON]
    ELSE [table |-> Put(t, k, JsonbIn(b)), n |-> 1, err |-> Nil]

\* The update that inserts the row when the key has none.
UpdateRowCreates(t, k, b) == UpsertRow(t, k, b)

\* UPDATE t SET v=$2 WHERE k=$1
UpdateRow(t, k, b) ==
    IF ~IsJSONString(b) THEN [table |-> t, n |-> 0, err |-> ErrInvalidJSON]
    ELSE IF k \in DOMAIN t THEN [table |-> Put(t, k, JsonbIn(b)), n |-> 1, err |-> Nil]
    ELSE [table |-> t, n |-> 0, err |-> Nil]

\* The delete that reports its row affected and leaves it in the table.
DeleteRowKeeps(t, k) ==
    IF k \in DOMAIN t THEN [table |-> t, n |-> 1, err |-> Nil]
    ELSE [table |-> t, n |-> 0, err |-> Nil]

\* The delete without its WHERE clause: every row goes.
DeleteRowAll(t, k) ==
    IF k \in DOMAIN t THEN [table |-> EmptyTable, n |-> Cardinality(DOMAIN t), err |-> Nil]
    ELSE [table |-> t, n |-> 0, err |-> Nil]

\* DELETE FROM t WHERE k=$1
DeleteRow(t, k) ==
    IF k \in DOMAIN t THEN [table |-> Remove(t, k), n |-> 1, err |-> Nil]
    ELSE [table |-> t, n |-> 0, err |-> Nil]

\* A handle that still executes after stmt.Close().
HandleErrIgnoresClosed(h, fault) ==
    IF fault = "driver" THEN ErrDriver ELSE Nil

\* stmt.ExecContext / QueryRowContext on a handle: a closed handle refuses, a
\* failing driver returns its error, and in both cases nothing is executed.
HandleErr(h, fault) ==
    IF h = "closed" THEN ErrStmtClosed
    ELSE IF fault = "driver" THEN ErrDriver
    ELSE Nil

----------------------------------------------------------------------------
(* The streams of the key enumeration, before any enumeration *)

NoEnumeration ==
    /\ kpc = "idle"
    /\ kfault = "none"
    /\ cursor = <<>>
    /\ keyCh = <<>>
    /\ errCh = <<>>
    /\ chClosed = FALSE
    /\ got = <<>>
    /\ gotErrs = <<>>

----------------------------------------------------------------------------
(* The callers: the collection of the last GetAll, and the concurrent callers *)

\* How many goroutines call the Store at the same time.
NumProcs == 2

Procs == 1..NumProcs

\* A goroutine that has not called the Store yet.
IdleProc == [pc |-> "idle", op |-> "None", k |-> 0, err |-> Nil]

\* No GetAll has run and no goroutine is inside a call.
NoCalls ==
    /\ coll = [order |-> <<>>, at |-> 0, c0 |-> <<>>, items |-> <<>>]
    /\ procs = [p \in Procs |-> IdleProc]

----------------------------------------------------------------------------
(* The point operations of the Store *)

\* The key Add returns when it fails before generating one: "".
NoKey == 0

\* Store.Get without the sql.ErrNoRows case: the miss comes back as an error.
GetCallNoRowsIsError(t, h, k, target, fault) ==
    LET e == HandleErr(h, fault) IN
    IF e # Nil THEN [ok |-> FALSE, err |-> e, target |-> target]
    ELSE LET rows == SelectByKey(t, k) IN
         IF rows = <<>> THEN [ok |-> FALSE, err |-> "sql: no rows in result set", target |-> target]
         ELSE LET u == UnmarshalJSON(rows[1], target) IN
              [ok |-> TRUE, err |-> u.err, target |-> u.target]

\* Store.Get: (found, err) and the caller's target after the call.
GetCall(t, h, k, target, fault) ==
    LET e == HandleErr(h, fault) IN
    IF e # Nil THEN [ok |-> FALSE, err |-> e, target |-> target]
    ELSE LET rows == SelectByKey(t, k) IN
         IF rows = <<>> THEN [ok |-> FALSE, err |-> Nil, target |-> target]
         ELSE LET u == UnmarshalJSON(rows[1], target) IN
              [ok |-> TRUE, err |-> u.err, target |-> u.target]

\* Store.Add returning a second uuid.New() instead of the key it inserted.
AddCallOtherKey(t, h, k, v, fault) ==
    IF fault = "marshal" THEN [table |-> t, key |-> NoKey, err |-> ErrMarshal]
    ELSE LET e == HandleErr(h, fault) IN
         IF e # Nil THEN [table |-> t, key |-> k, err |-> e]
         ELSE LET r == InsertRow(t, k, MarshalJSON(v)) IN
              [table |-> r.table, key |-> (k % NumKeys) + 1, err |-> r.err]

\* Store.Add executing the upsert statement instead of the plain insert.
AddCallUpsert(t, h, k, v, fault) ==
    IF fault = "marshal" THEN [table |-> t, key |-> NoKey, err |-> ErrMarshal]
    ELSE LET e == HandleErr(h, fault) IN
         IF e # Nil THEN [table |-> t, key |-> k, err |-> e]
         ELSE LET r == UpsertRow(t, k, MarshalJSON(v)) IN
              [table |-> r.table, key |-> k, err |-> r.err]

\* Store.Add: k is the key uuid.New() hands out.
AddCall(t, h, k, v, fault) ==
    IF fault = "marshal" THEN [table |-> t, key |-> NoKey, err |-> ErrMarshal]
    ELSE LET e == HandleErr(h, fault) IN
         IF e # Nil THEN [table |-> t, key |-> k, err |-> e]
         ELSE LET r == InsertRow(t, k, MarshalJSON(v)) IN
              [table |-> r.table, key |-> k, err |-> r.err]

\* Store.Set
SetCall(t, h, k, v, fault) ==
    IF fault = "marshal" THEN [table |-> t, err |-> ErrMarshal]
    ELSE LET e == HandleErr(h, fault) IN
         IF e # Nil THEN [table |-> t, err |-> e]
         ELSE LET r == UpsertRow(t, k, MarshalJSON(v)) IN
              [table |-> r.table, err |-> r.err]

\* Store.Update without the affected-row count: no driver error means nil.
UpdateCallNoCount(t, h, k, v, fault) ==
    IF fault = "marshal" THEN [table |-> t, err |-> ErrMarshal]
    ELSE LET e == HandleErr(h, fault) IN
         IF e # Nil THEN [table |-> t, err |-> e]
         ELSE LET r == UpdateRow(t, k, MarshalJSON(v)) IN
              [table |-> r.table, err |-> r.err]

\* Store.Update
UpdateCall(t, h, k, v, fault) ==
    IF fault = "marshal" THEN [table |-> t, err |-> ErrMarshal]
    ELSE LET e == HandleErr(h, fault) IN
         IF e # Nil THEN [table |-> t, err |-> e]
         ELSE LET r == UpdateRow(t, k, MarshalJSON(v)) IN
              IF r.err # Nil THEN [table |-> r.table, err |-> r.err]
              ELSE IF r.n < 1 THEN [table |-> r.table, err |-> ErrNoRows]
              ELSE [table |-> r.table, err |-> Nil]

\* Store.Delete without the affected-row count.
DeleteCallNoCount(t, h, k, fault) ==
    LET e == HandleErr(h, fault) IN
    IF e # Nil THEN [table |-> t, err |-> e]
    ELSE LET r == DeleteRow(t, k) IN [table |-> r.table, err |-> r.err]

\* Store.Delete
DeleteCall(t, h, k, fault) ==
    LET e == HandleErr(h, fault) IN
    IF e # Nil THEN [table |-> t, err |-> e]
    ELSE LET r == DeleteRow(t, k) IN
         IF r.err # Nil THEN [table |-> r.table, err |-> r.err]
         ELSE IF r.n < 1 THEN [table |-> r.table, err |-> ErrNoRows]
         ELSE [table |-> r.table, err |-> Nil]

\* The record of a call: what was asked and what came back.
Call(op, k, v, target0, fault, ok, err, target) ==
    [op |-> op, k |-> k, v |-> v, target0 |-> target0, fault |-> fault,
     ok |-> ok, err |-> err, target |-> target]

\* History of the rows: a write that returned nil is the key's last write, a
\* Delete that returned nil makes the key a deleted one.
Wrote(op, k, v, err) ==
    /\ lastWrite' = IF err = Nil THEN Put(lastWrite, k, [op |-> op, v |-> v])
                    ELSE lastWrite
    /\ deleted' = IF err = Nil THEN deleted \ {k} ELSE deleted

Get(k, target0, fault) ==
    /\ stmt.getStmt # "nil"
    /\ LET r == GetCall(table, stmt.getStmt, k, target0, fault) IN
       last' = Call("Get", k, <<>>, target0, fault, r.ok, r.err, r.target)
    /\ UNCHANGED <<table, stmt, lastWrite, deleted, prepLog, closeLog, closeErr, released>>
    /\ UNCHANGED callVars
    /\ UNCHANGED enumVars

Add(k, v, fault) ==
    /\ stmt.addStmt # "nil"
    /\ LET r == AddCall(table, stmt.addStmt, k, v, fault) IN
       /\ table' = r.table
       /\ last' = Call("Add", r.key, v, <<>>, fault, FALSE, r.err, <<>>)
       /\ Wrote("Add", r.key, v, r.err)
    /\ UNCHANGED <<stmt, prepLog, closeLog, closeErr, released>>
    /\ UNCHANGED callVars
    /\ UNCHANGED enumVars

Set(k, v, fault) ==
    /\ stmt.setStmt # "nil"
    /\ LET r == SetCall(table, stmt.setStmt, k, v, fault) IN
       /\ table' = r.table
       /\ last' = Call("Set", k, v, <<>>, fault, FALSE, r.err, <<>>)
       /\ Wrote("Set", k, v, r.err)
    /\ UNCHANGED <<stmt, prepLog, closeLog, closeErr, released>>
    /\ UNCHANGED callVars
    /\ UNCHANGED enumVars

Update(k, v, fault) ==
    /\ stmt.updateStmt # "nil"
    /\ LET r == UpdateCall(table, stmt.updateStmt, k, v, fault) IN
       /\ table' = r.table
       /\ last' = Call("Update", k, v, <<>>, fault, FALSE, r.err, <<>>)
       /\ Wrote("Update", k, v, r.err)
    /\ UNCHANGED <<stmt, prepLog, closeLog, closeErr, released>>
    /\ UNCHANGED callVars
    /\ UNCHANGED enumVars

Delete(k, fault) ==
    /\ stmt.deleteStmt # "nil"
    /\ LET r == DeleteCall(table, stmt.deleteStmt, k, fault) IN
       /\ table' = r.table
       /\ last' = Call("Delete", k, <<>>, <<>>, fault, FALSE, r.err, <<>>)
       /\ lastWrite' = IF r.err = Nil THEN Remove(lastWrite, k) ELSE lastWrite
       /\ deleted' = IF r.err = Nil THEN deleted \cup {k} ELSE deleted
    /\ UNCHANGED <<stmt, prepLog, closeLog, closeErr, released>>
    /\ UNCHANGED callVars
    /\ UNCHANGED enumVars

----------------------------------------------------------------------------
(* The Store in use: a constructed Store over an empty table *)

Constructed == [n \in StmtNames |-> "open"]

Init ==
    /\ table = EmptyTable
    /\ stmt = Constructed
    /\ last = Call("New", NoKey, <<>>, <<>>, "none", FALSE, Nil, <<>>)
    /\ lastWrite = EmptyTable
    /\ deleted = {}
    /\ prepLog = StmtOrder
    /\ closeLog = <<>>
    /\ closeErr = Nil
    /\ released = [n \in StmtNames |-> 0]
    /\ NoEnumeration
    /\ NoCalls

Next ==
    \/ \E k \in KeySet, t0 \in Targets, f \in {"none", "driver"} : Get(k, t0, f)
    \/ \E k \in KeySet, i \in WriteInputs : Add(k, i[1], i[2])
    \/ \E k \in KeySet, i \in WriteInputs : Set(k, i[1], i[2])
    \/ \E k \in KeySet, i \in WriteInputs : Update(k, i[1], i[2])
    \/ \E k \in KeySet, f \in {"none", "driver"} : Delete(k, f)

Spec == Init /\ [][Next]_vars

----------------------------------------------------------------------------
(* Construction and teardown: New and Store.Close *)

\* How many times the caller calls Close on one Store.
MaxCloses == 2

ErrCreate == "create table failed"

\* The error db.Prepare returns for each statement, and stmt.Close() for each handle.
PrepareErr ==
    [getStmt |-> "prepare getStmt failed", getAllStmt |-> "prepare getAllStmt failed",
     addStmt |-> "prepare addStmt failed", setStmt |-> "prepare setStmt failed",
     updateStmt |-> "prepare updateStmt failed", deleteStmt |-> "prepare deleteStmt failed"]

CloseErr ==
    [getStmt |-> "close getStmt failed", getAllStmt |-> "close getAllStmt failed",
     addStmt |-> "close addStmt failed", setStmt |-> "close setStmt failed",
     updateStmt |-> "close updateStmt failed", deleteStmt |-> "close deleteStmt failed"]

\* The sets of handles whose release the driver can be made to fail.
FailSets == SUBSET StmtNames

Unset == [n \in StmtNames |-> "nil"]

\* The loop of Store.Close from handle i on: a nil handle is skipped; a handle
\* is closed whatever its Close returns (closing a closed *sql.Stmt returns
\* nil); err keeps the first error.
RECURSIVE CloseFrom(_, _, _, _, _)
CloseFrom(i, st, failing, err, log) ==
    IF i > Len(StmtOrder) THEN [stmt |-> st, err |-> err, log |-> log]
    ELSE LET n == StmtOrder[i] IN
         IF st[n] = "nil" THEN CloseFrom(i + 1, st, failing, err, log)
         ELSE LET e == IF st[n] = "open" /\ n \in failing THEN CloseErr[n] ELSE Nil IN
              CloseFrom(i + 1, [st EXCEPT ![n] = "closed"], failing,
                        IF err = Nil THEN e ELSE err,
                        Append(log, [h |-> n, err |-> e]))

\* Store.Close keeping the last error instead of the first.
RECURSIVE CloseFromLastErr(_, _, _, _, _)
CloseFromLastErr(i, st, failing, err, log) ==
    IF i > Len(StmtOrder) THEN [stmt |-> st, err |-> err, log |-> log]
    ELSE LET n == StmtOrder[i] IN
         IF st[n] = "nil" THEN CloseFromLastErr(i + 1, st, failing, err, log)
         ELSE LET e == IF st[n] = "open" /\ n \in failing THEN CloseErr[n] ELSE Nil IN
              CloseFromLastErr(i + 1, [st EXCEPT ![n] = "closed"], failing,
                               IF e # Nil THEN e ELSE err,
                               Append(log, [h |-> n, err |-> e]))

CloseCallLastErr(st, failing) == CloseFromLastErr(1, st, failing, Nil, <<>>)

\* Store.Close
CloseCall(st, failing) == CloseFrom(1, st, failing, Nil, <<>>)

\* The prepare steps of New from statement i on; failAt is the statement whose
\* preparation fails (0: none).
RECURSIVE PrepareFrom(_, _, _, _)
PrepareFrom(i, st, failAt, failing) ==
    IF i > Len(StmtOrder)
    THEN [stmt |-> st, err |-> Nil, prepLog |-> StmtOrder,
          closeLog |-> <<>>, closeErr |-> Nil]
    ELSE IF i = failAt
    THEN LET c == CloseCall(st, failing) IN
         [stmt |-> c.stmt, err |-> PrepareErr[StmtOrder[i]],
          prepLog |-> SubSeq(StmtOrder, 1, i),
          closeLog |-> c.log, closeErr |-> c.err]
    ELSE PrepareFrom(i + 1, [st EXCEPT ![StmtOrder[i]] = "open"], failAt, failing)

\* New with "err = s.Close()" on the failure path: the teardown's result
\* replaces the preparation error.
NewCallCloseErr(createFails, failAt, failing) ==
    IF createFails
    THEN [stmt |-> Unset, err |-> ErrCreate, prepLog |-> <<>>,
          closeLog |-> <<>>, closeErr |-> Nil]
    ELSE LET r == PrepareFrom(1, Unset, failAt, failing) IN
         IF failAt = 0 THEN r ELSE [r EXCEPT !.err = r.closeErr]

\* New
NewCall(createFails, failAt, failing) ==
    IF createFails
    THEN [stmt |-> Unset, err |-> ErrCreate, prepLog |-> <<>>,
          closeLog |-> <<>>, closeErr |-> Nil]
    ELSE PrepareFrom(1, Unset, failAt, failing)

\* The stmt.Close() calls of a log, counted per handle.
Releases(log) ==
    [n \in StmtNames |-> Cardinality({i \in DOMAIN log : log[i].h = n})]

NewFault(createFails, failAt) ==
    IF createFails THEN "create"
    ELSE IF failAt = 0 THEN "none"
    ELSE StmtOrder[failAt]

New(createFails, failAt, failing) ==
    /\ last.op = "None"
    /\ LET r == NewCall(createFails, failAt, failing) IN
       /\ stmt' = r.stmt
       /\ prepLog' = r.prepLog
       /\ closeLog' = r.closeLog
       /\ closeErr' = r.closeErr
       /\ released' = [n \in StmtNames |-> released[n] + Releases(r.closeLog)[n]]
       /\ last' = Call("New", NoKey, <<>>, <<>>, NewFault(createFails, failAt),
                       FALSE, r.err, <<>>)
    /\ UNCHANGED <<table, lastWrite, deleted>>
    /\ UNCHANGED callVars
    /\ UNCHANGED enumVars

Close(failing) ==
    /\ last.op # "None"
    /\ \A n \in StmtNames : released[n] < MaxCloses
    /\ LET r == CloseCall(stmt, failing) IN
       /\ stmt' = r.stmt
       /\ closeLog' = r.log
       /\ closeErr' = r.err
       /\ released' = [n \in StmtNames |-> released[n] + Releases(r.log)[n]]
       /\ last' = Call("Close", NoKey, <<>>, <<>>, "none", FALSE, r.err, <<>>)
    /\ UNCHANGED <<table, lastWrite, deleted, prepLog>>
    /\ UNCHANGED callVars
    /\ UNCHANGED enumVars

\* Before New: no Store yet.
InitLife ==
    /\ table = EmptyTable
    /\ stmt = Unset
    /\ last = Call("None", NoKey, <<>>, <<>>, "none", FALSE, Nil, <<>>)
    /\ lastWrite = EmptyTable
    /\ deleted = {}
    /\ prepLog = <<>>
    /\ closeLog = <<>>
    /\ closeErr = Nil
    /\ released = [n \in StmtNames |-> 0]
    /\ NoEnumeration
    /\ NoCalls

NextLife ==
    \/ \E c \in BOOLEAN, i \in 0..Len(StmtOrder), f \in FailSets : New(c, i, f)
    \/ \E f \in FailSets : Close(f)

SpecLife == InitLife /\ [][NextLife]_vars

----------------------------------------------------------------------------
(* The streaming key enumeration: Keys, its worker and a draining consumer *)

\* How many keys the enumerated table can hold.
NumEnumKeys == 3

EnumKeySet == 1..NumEnumKeys

\* The result orders of SELECT k FROM t: no ORDER BY, so any order of the rows.
Orders(t) ==
    LET n == Cardinality(DOMAIN t) IN
    {o \in [1..n -> DOMAIN t] : \A i, j \in 1..n : o[i] = o[j] => i = j}

\* Keys: a failing query puts one error on the error stream and closes both
\* streams with no worker; otherwise the worker starts on the cursor.
KeysCall(order, fault) ==
    /\ kpc = "idle"
    /\ kfault' = fault
    /\ IF fault = "query"
       THEN /\ errCh' = Append(errCh, ErrDriver)
            /\ chClosed' = TRUE
            /\ kpc' = "done"
            /\ cursor' = <<>>
       ELSE /\ cursor' = order
            /\ kpc' = "run"
            /\ UNCHANGED <<errCh, chClosed>>
    /\ UNCHANGED callVars
    /\ last' = Call("Keys", NoKey, <<>>, <<>>, fault, FALSE, Nil, <<>>)
    /\ UNCHANGED <<table, stmt, lastWrite, deleted, prepLog, closeLog, closeErr, released>>
    /\ UNCHANGED <<keyCh, got, gotErrs>>

\* The worker on the next row: it scans the key and sends it on the key
\* stream, where it waits for the consumer; a row that fails to scan puts its
\* error on the error stream and the worker goes on.
WorkerRow ==
    /\ kpc = "run"
    /\ cursor # <<>>
    /\ keyCh = <<>>
    /\ IF kfault = "scan" /\ Len(cursor) = Cardinality(DOMAIN table)
       THEN errCh' = Append(errCh, ErrDriver) /\ UNCHANGED keyCh
       ELSE keyCh' = <<Head(cursor)>> /\ UNCHANGED errCh
    /\ cursor' = Tail(cursor)
    /\ UNCHANGED <<table, stmt, last, lastWrite, deleted, prepLog, closeLog, closeErr, released>>
    /\ UNCHANGED callVars
    /\ UNCHANGED <<kpc, kfault, chClosed, got, gotErrs>>

\* The worker past the last row, its last key received: the cursor is released
\* and both streams are closed.
WorkerFinish ==
    /\ kpc = "run"
    /\ cursor = <<>>
    /\ keyCh = <<>>
    /\ chClosed' = TRUE
    /\ kpc' = "done"
    /\ UNCHANGED <<table, stmt, last, lastWrite, deleted, prepLog, closeLog, closeErr, released>>
    /\ UNCHANGED callVars
    /\ UNCHANGED <<kfault, cursor, keyCh, errCh, got, gotErrs>>

\* The consumer receives the key the worker is sending.
ReceiveKey ==
    /\ keyCh # <<>>
    /\ got' = Append(got, keyCh[1])
    /\ keyCh' = <<>>
    /\ UNCHANGED <<table, stmt, last, lastWrite, deleted, prepLog, closeLog, closeErr, released>>
    /\ UNCHANGED callVars
    /\ UNCHANGED <<kpc, kfault, cursor, errCh, chClosed, gotErrs>>

\* The consumer receives an error.
ReceiveErr ==
    /\ errCh # <<>>
    /\ gotErrs' = Append(gotErrs, Head(errCh))
    /\ errCh' = Tail(errCh)
    /\ UNCHANGED <<table, stmt, last, lastWrite, deleted, prepLog, closeLog, closeErr, released>>
    /\ UNCHANGED callVars
    /\ UNCHANGED <<kpc, kfault, cursor, keyCh, chClosed, got>>

\* Inserts and deletes, then one enumeration drained by its consumer.
NextKeys ==
    \/ \E k \in EnumKeySet : kpc = "idle" /\ Add(k, <<"a">>, "none")
    \/ \E k \in EnumKeySet : kpc = "idle" /\ Delete(k, "none")
    \/ \E o \in Orders(table), f \in {"none", "query", "scan"} : KeysCall(o, f)
    \/ WorkerRow
    \/ WorkerFinish
    \/ ReceiveKey
    \/ ReceiveErr

\* The worker is a goroutine of its own and the consumer drains both streams.
SpecKeys ==
    /\ Init
    /\ [][NextKeys]_vars
    /\ WF_vars(WorkerRow)
    /\ WF_vars(WorkerFinish)
    /\ WF_vars(ReceiveKey)
    /\ WF_vars(ReceiveErr)

----------------------------------------------------------------------------
(* Store.GetAll: every value of the table, decoded into the caller's collection *)

ErrScan == "sql: Scan error"

\* The result orders of SELECT v FROM t: no ORDER BY, so any order of the rows.
ResultOrders(t) ==
    LET n == Cardinality(DOMAIN t) IN
    {o \in [1..n -> DOMAIN t] : \A i, j \in 1..n : o[i] = o[j] => i = j}

\* The collections the caller hands to GetAll: empty, or holding an item already.
Colls == { <<>>, << <<"a">> >> }

\* Where a GetAll can fail: the query, rows.Next, rows.Scan or the decode of a row.
GetAllFaults == {"none", "driver", "next", "scan", "decode"}

\* StringCollection.New: a zero String is appended and handed out as the target.
NewTarget == <<>>

\* The decode of one row into the target the collection handed out.
DecodeRow(b, fault, at, i) ==
    IF fault = "decode" /\ at = i
    THEN [err |-> ErrSyntax, target |-> NewTarget]
    ELSE UnmarshalJSON(b, NewTarget)

\* The loop of GetAll that goes on with the next row after a failed decode.
RECURSIVE GetAllFromGoesOn(_, _, _, _, _, _)
GetAllFromGoesOn(t, order, i, fault, at, c) ==
    IF i > Len(order) THEN [err |-> Nil, items |-> c]
    ELSE IF fault = "next" /\ at = i THEN [err |-> ErrDriver, items |-> c]
    ELSE IF fault = "scan" /\ at = i THEN [err |-> ErrScan, items |-> c]
    ELSE LET u == DecodeRow(JsonbOut(t[order[i]]), fault, at, i) IN
         GetAllFromGoesOn(t, order, i + 1, fault, at, Append(c, u.target))

\* The loop of GetAll from row i of the result on: rows.Next, rows.Scan, then
\* c.New().UnmarshalJSON; the first error ends the loop, and the end of the
\* rows returns rows.Err().
RECURSIVE GetAllFrom(_, _, _, _, _, _)
GetAllFrom(t, order, i, fault, at, c) ==
    IF i > Len(order) THEN [err |-> Nil, items |-> c]
    ELSE IF fault = "next" /\ at = i THEN [err |-> ErrDriver, items |-> c]
    ELSE IF fault = "scan" /\ at = i THEN [err |-> ErrScan, items |-> c]
    ELSE LET u == DecodeRow(JsonbOut(t[order[i]]), fault, at, i) IN
         IF u.err # Nil
         THEN [err |-> u.err, items |-> Append(c, u.target)]
         ELSE GetAllFrom(t, order, i + 1, fault, at, Append(c, u.target))

\* Store.GetAll with a loop that does not stop at a failed decode.
GetAllCallGoesOn(t, h, order, fault, at, c) ==
    LET e == HandleErr(h, fault) IN
    IF e # Nil THEN [err |-> e, items |-> c, queried |-> FALSE]
    ELSE [queried |-> TRUE] @@ GetAllFromGoesOn(t, order, 1, fault, at, c)

\* Store.GetAll: the query, then the loop over its rows; a query that failed
\* has no rows.
GetAllCall(t, h, order, fault, at, c) ==
    LET e == HandleErr(h, fault) IN
    IF e # Nil THEN [err |-> e, items |-> c, queried |-> FALSE]
    ELSE [queried |-> TRUE] @@ GetAllFrom(t, order, 1, fault, at, c)

GetAll(order, fault, at, c0) ==
    /\ stmt.getAllStmt # "nil"
    /\ LET r == GetAllCall(table, stmt.getAllStmt, order, fault, at, c0) IN
       /\ last' = Call("GetAll", NoKey, <<>>, <<>>, fault, FALSE, r.err, <<>>)
       /\ coll' = [order |-> IF r.queried THEN order ELSE <<>>,
                   at |-> at, c0 |-> c0, items |-> r.items]
    /\ UNCHANGED <<table, stmt, lastWrite, deleted, prepLog, closeLog, closeErr, released>>
    /\ UNCHANGED enumVars
    /\ UNCHANGED procs

\* The places a failure of the given kind can strike in a result of n rows.
FaultPlaces(fault, n) ==
    IF fault \in {"none", "driver"} THEN {0}
    ELSE IF fault = "next" THEN 1..(n + 1)
    ELSE 1..n

\* The values the rows hold when GetAll runs: the ones that differ from a fresh
\* target, so that a decoded row and an undecoded target can be told apart.
RowValues == {v \in Strings : v # NewTarget}

NextGetAll ==
    \/ \E k \in KeySet, v \in RowValues : Set(k, v, "none")
    \/ \E k \in KeySet : Delete(k, "none")
    \/ \E o \in ResultOrders(table), f \in {"none", "scan", "decode"}, c \in Colls :
          \E i \in FaultPlaces(f, Len(o)) : GetAll(o, f, i, c)

SpecGetAll == Init /\ [][NextGetAll]_vars

----------------------------------------------------------------------------
(* The Store in use and then closed: every method on a closed Store *)

\* The values and failures of the writes around a Close.
ClosedInputs == { << <<"a">>, "none" >>, << <<"a">>, "marshal" >> }

\* The handles whose stmt.Close() fails in a Close: none, one, or all of them.
ClosedFailSets == { {}, {"setStmt"}, StmtNames }

\* Close has been called on the Store: some handle has been released.
Closed == \E n \in StmtNames : released[n] > 0

\* The caller uses the point operations, calls Close, and goes on calling every
\* method; GetAll on the open Store is the subject of SpecGetAll, and is called
\* only on the closed Store here.
NextClosed ==
    \/ \E k \in KeySet : Get(k, <<>>, "none")
    \/ \E k \in KeySet, i \in ClosedInputs : Add(k, i[1], i[2])
    \/ \E k \in KeySet, i \in ClosedInputs : Set(k, i[1], i[2])
    \/ \E k \in KeySet, i \in ClosedInputs : Update(k, i[1], i[2])
    \/ \E k \in KeySet : Delete(k, "none")
    \/ \E o \in ResultOrders(table), f \in {"none", "driver"} :
          Closed /\ GetAll(o, f, 0, <<>>)
    \/ \E f \in ClosedFailSets : Close(f)

SpecClosed == Init /\ [][NextClosed]_vars

----------------------------------------------------------------------------
(* Concurrent callers: Set, Add, Update and Delete of one key, interleaved *)

\* The key the concurrent callers contend for, and the value they write.
RaceKeys == {1}
RaceValue == <<"a">>

RaceOps == {"Set", "Add", "Update", "Delete"}

\* The method a goroutine is in, on the shared table: the statement it executes
\* and the error it computes from the result.
RaceCall(op, t, k) ==
    CASE op = "Set" -> SetCall(t, stmt.setStmt, k, RaceValue, "none")
      [] op = "Add" -> LET r == AddCall(t, stmt.addStmt, k, RaceValue, "none") IN
                       [table |-> r.table, err |-> r.err]
      [] op = "Update" -> UpdateCall(t, stmt.updateStmt, k, RaceValue, "none")
      [] op = "Delete" -> DeleteCall(t, stmt.deleteStmt, k, "none")

\* A goroutine enters a method: the value is marshalled, nothing is sent yet.
Invoke(p, op, k) ==
    /\ procs[p].pc = "idle"
    /\ procs' = [procs EXCEPT ![p] = [pc |-> "called", op |-> op, k |-> k, err |-> Nil]]
    /\ UNCHANGED <<table, stmt, last, lastWrite, deleted, prepLog, closeLog, closeErr,
                   released, coll>>
    /\ UNCHANGED enumVars

\* The statement of the method executes: one statement, committed on its own,
\* so it reads and writes the table in one step; the goroutine holds the result.
Exec(p) ==
    /\ procs[p].pc = "called"
    /\ LET c == procs[p]
           r == RaceCall(c.op, table, c.k) IN
       /\ table' = r.table
       /\ procs' = [procs EXCEPT ![p].pc = "executed", ![p].err = r.err]
       /\ deleted' = IF r.err # Nil \/ c.op = "Update" THEN deleted
                     ELSE IF c.op = "Delete" THEN deleted \cup {c.k}
                     ELSE deleted \ {c.k}
    /\ UNCHANGED <<stmt, last, lastWrite, prepLog, closeLog, closeErr, released, coll>>
    /\ UNCHANGED enumVars

\* The method returns its error to the caller.
Return(p) ==
    /\ procs[p].pc = "executed"
    /\ procs' = [procs EXCEPT ![p].pc = "idle"]
    /\ UNCHANGED <<table, stmt, last, lastWrite, deleted, prepLog, closeLog, closeErr,
                   released, coll>>
    /\ UNCHANGED enumVars

NextRace ==
    \/ \E p \in Procs, op \in RaceOps, k \in RaceKeys : Invoke(p, op, k)
    \/ \E p \in Procs : Exec(p)
    \/ \E p \in Procs : Return(p)

SpecRace == Init /\ [][NextRace]_vars

----------------------------------------------------------------------------
(* The point operations: claims C1 to C7, under Spec *)

\* A call that ran into no fault: the marshaler worked and so did the driver.
Healthy(c) == c.fault = "none"

\* C1 (round trip): when Add(v) returned key k with a nil error and no write to
\* k returned nil since, a healthy Get(k) returns (true, nil) and decodes
\* exactly v into the target.
C1_RoundTrip ==
    (/\ last.op = "Get"
     /\ Healthy(last)
     /\ last.k \in DOMAIN lastWrite
     /\ lastWrite[last.k].op = "Add")
    => (last.ok /\ last.err = Nil /\ last.target = lastWrite[last.k].v)

\* A Get has read back an added value that the codecs escape, into a target
\* that held something else.
C1_Witness ==
    /\ last.op = "Get"
    /\ Healthy(last)
    /\ last.k \in DOMAIN lastWrite
    /\ lastWrite[last.k].op = "Add"
    /\ lastWrite[last.k].v = <<"\"", "<", "\\">>
    /\ last.target0 = <<"a">>
    /\ last.target = <<"\"", "<", "\\">>

\* The step of a Set, and the Get that follows a Set.
C2_SetStep ==
    last'.op = "Set" =>
        /\ last'.err # ErrNoRows
        /\ Healthy(last') =>
              (last'.err = Nil /\ table' = Put(table, last'.k, last'.v))

C2_GetAfterSet ==
    (/\ last.op = "Get"
     /\ Healthy(last)
     /\ last.k \in DOMAIN lastWrite
     /\ lastWrite[last.k].op = "Set")
    => (last.ok /\ last.err = Nil /\ last.target = lastWrite[last.k].v)

\* C2 (Set is an upsert): a healthy Set(k, v) returns nil and leaves the table
\* as it was except that the row of k holds v, whether or not k had a row; no
\* Set returns store.ErrNoRows; and a healthy Get(k) after the last Set(k, v)
\* returns (true, nil) with v.
C2_SetIsUpsert == [][C2_SetStep]_vars /\ []C2_GetAfterSet

\* A Set has returned nil on a key that a second row sits next to, and the row
\* holds the value set.
C2_Witness ==
    /\ last.op = "Set"
    /\ last.err = Nil
    /\ Cardinality(DOMAIN table) = 2
    /\ table[last.k] = <<"\"", "<", "\\">>
    /\ last.v = <<"\"", "<", "\\">>

\* The step of an Update, by whether its key had a row.
C3_UpdateStep ==
    last'.op = "Update" =>
        IF last'.k \in DOMAIN table
        THEN Healthy(last') =>
                (last'.err = Nil /\ table' = Put(table, last'.k, last'.v))
        ELSE /\ last'.k \notin DOMAIN table'
             /\ Healthy(last') => (last'.err = ErrNoRows /\ table' = table)

\* C3 (Update on a missing key): an Update(k, v) on a key without a row never
\* creates the row, and when healthy returns store.ErrNoRows and leaves the
\* table unchanged; a healthy Update on a key with a row returns nil and the
\* row holds v.
C3_UpdateMissingFails == [][C3_UpdateStep]_vars

\* An Update has returned store.ErrNoRows and its key has no row.
C3_Witness ==
    /\ last.op = "Update"
    /\ last.err = ErrNoRows
    /\ last.k \notin DOMAIN table
    /\ table # EmptyTable

\* The step of a Delete whose key had no row.
C4_DeleteStep ==
    (last'.op = "Delete" /\ last'.k \notin DOMAIN table) =>
        /\ table' = table
        /\ Healthy(last') =>
              /\ last'.err = ErrNoRows
              /\ last'.err = UpdateCall(table, "open", last'.k, <<>>, "none").err

\* C4 (Delete on a missing key): a Delete(k) on a key without a row leaves the
\* table unchanged and, when healthy, returns store.ErrNoRows, the error Update
\* returns for a missing key.
C4_DeleteMissingFails == [][C4_DeleteStep]_vars

\* A Delete has returned store.ErrNoRows on a table that holds other rows.
C4_Witness ==
    /\ last.op = "Delete"
    /\ last.err = ErrNoRows
    /\ last.k \notin DOMAIN table
    /\ table # EmptyTable

\* The step of a Delete whose key had a row, and the Get that follows it.
C5_DeleteStep ==
    (last'.op = "Delete" /\ Healthy(last') /\ last'.k \in DOMAIN table) =>
        (last'.err = Nil /\ table' = Remove(table, last'.k))

C5_GetAfterDelete ==
    (last.op = "Get" /\ Healthy(last) /\ last.k \in deleted)
    => (~last.ok /\ last.err = Nil)

\* C5 (Delete removes exactly the addressed row): a healthy Delete(k) on a key
\* with a row returns nil and leaves the table as it was without the row of k;
\* a healthy Get(k) on a deleted key returns (false, nil).
C5_DeleteRemovesRow == [][C5_DeleteStep]_vars /\ []C5_GetAfterDelete

\* A Get has missed a deleted key while another row is still there.
C5_Witness ==
    /\ last.op = "Get"
    /\ Healthy(last)
    /\ last.k \in deleted
    /\ ~last.ok
    /\ table # EmptyTable

\* The step of a Get.
C6_GetStep ==
    last'.op = "Get" =>
        /\ table' = table
        /\ (Healthy(last') /\ last'.k \notin DOMAIN table) =>
              (~last'.ok /\ last'.err = Nil /\ last'.target = last'.target0)

\* C6 (Get on a missing key): no Get changes the table, and a healthy Get(k) on
\* a key without a row returns (false, nil) and leaves the target as it was.
C6_GetMissIsNoError == [][C6_GetStep]_vars

\* A Get has missed with a target that held a value, and the target holds it.
C6_Witness ==
    /\ last.op = "Get"
    /\ Healthy(last)
    /\ last.k \notin DOMAIN table
    /\ ~last.ok
    /\ last.err = Nil
    /\ last.target0 = <<"a">>
    /\ last.target = <<"a">>

\* The step of an Add whose key had a row.
C7_AddStep ==
    (last'.op = "Add" /\ last'.k \in DOMAIN table) =>
        (last'.err # Nil /\ table' = table)

----------------------------------------------------------------------------
(* Construction and teardown: claims C8 and C9, under SpecLife *)

IndexOf(n) == CHOOSE i \in DOMAIN StmtOrder : StmtOrder[i] = n

\* The handles of a Store whose first m statements are prepared.
Prepared(m) ==
    [n \in StmtNames |-> IF IndexOf(n) <= m THEN "open" ELSE "nil"]

\* C8 (construction failure leaks nothing): when the N-th preparation of New
\* fails, at New's return statements 1..N and no later one have been asked
\* for, each of the first N-1 handles has been released exactly once, the
\* other handles are unset and unreleased, and New returns the error of the
\* preparation, whatever the teardown returned.
C8_NewFailureLeaksNothing ==
    (last.op = "New" /\ last.fault \in StmtNames) =>
        LET N == IndexOf(last.fault) IN
        /\ last.err = PrepareErr[last.fault]
        /\ prepLog = SubSeq(StmtOrder, 1, N)
        /\ \A i \in DOMAIN StmtOrder :
              IF i < N
              THEN stmt[StmtOrder[i]] = "closed" /\ released[StmtOrder[i]] = 1
              ELSE stmt[StmtOrder[i]] = "nil" /\ released[StmtOrder[i]] = 0

\* New has failed at its fifth preparation and its teardown has failed too.
C8_Witness ==
    /\ last.op = "New"
    /\ last.fault = "updateStmt"
    /\ last.err = PrepareErr.updateStmt
    /\ closeErr = CloseErr.addStmt
    /\ released.setStmt = 1
    /\ released.updateStmt = 0

\* What Store.Close owes on a Store whose handles were `before`: stmt.Close()
\* is called on every set handle, in the order of StmtOrder, the unset ones
\* skipped and a failure stopping nothing; every set handle ends closed; and
\* the result is the error of the first call that failed, or nil.
CloseContract(before, log, err, after) ==
    LET IsSet(n) == before[n] # "nil"
        failed == {i \in DOMAIN log : log[i].err # Nil}
    IN  /\ [i \in DOMAIN log |-> log[i].h] = SelectSeq(StmtOrder, IsSet)
        /\ after = [n \in StmtNames |-> IF IsSet(n) THEN "closed" ELSE "nil"]
        /\ err = IF failed = {} THEN Nil
                 ELSE log[CHOOSE i \in failed : \A j \in failed : i <= j].err

\* The step of a Close, and of a New that tears down.
C9_CloseStep ==
    /\ last'.op = "Close" =>
          /\ CloseContract(stmt, closeLog', closeErr', stmt')
          /\ last'.err = closeErr'
    /\ (last.op = "None" /\ last'.op = "New" /\ last'.fault \in StmtNames) =>
          CloseContract(Prepared(IndexOf(last'.fault) - 1), closeLog', closeErr', stmt')

\* C9 (Close): every Store.Close, called by the caller or by New on its failure
\* path, calls stmt.Close() on each set handle in the order getStmt, getAllStmt,
\* addStmt, setStmt, updateStmt, deleteStmt, skipping the unset ones and going
\* on past a handle that fails to close, and returns the error of the first
\* handle that failed, or nil when none did.
C9_CloseReleasesAll == [][C9_CloseStep]_vars

\* A Close of a constructed Store has gone through all six handles although the
\* second and the fifth failed to close, and has returned the second's error.
C9_Witness ==
    /\ last.op = "Close"
    /\ Len(closeLog) = Len(StmtOrder)
    /\ closeLog[1].err = Nil
    /\ closeLog[2].err = CloseErr.getAllStmt
    /\ closeLog[5].err = CloseErr.updateStmt
    /\ last.err = CloseErr.getAllStmt
    /\ \A n \in StmtNames : stmt[n] = "closed"

----------------------------------------------------------------------------
(* The key enumeration: claim C10, under SpecKeys *)

Range(q) == {q[i] : i \in DOMAIN q}

\* The state of a healthy enumeration that is over.
C10_Drained ==
    (kpc = "done" /\ kfault = "none") =>
        /\ Range(got) = DOMAIN table
        /\ Len(got) = Cardinality(DOMAIN table)
        /\ Range(got) \cap deleted = {}
        /\ errCh = <<>>
        /\ gotErrs = <<>>
        /\ keyCh = <<>>
        /\ chClosed

\* C10 (Keys enumerates exactly the live rows): once a healthy enumeration that
\* follows the inserts and deletes is over, the consumer has received each key
\* of the table exactly once and no deleted key, the error stream has carried
\* no error, and both streams are closed; and every enumeration started ends
\* with both streams closed.
C10_KeysEnumeratesLiveRows ==
    /\ []C10_Drained
    /\ (kpc = "run") ~> (kpc = "done" /\ chClosed /\ keyCh = <<>> /\ errCh = <<>>)

\* Three keys were inserted, one was deleted, and the drained enumeration has
\* delivered the other two.
C10_Witness ==
    /\ kpc = "done"
    /\ kfault = "none"
    /\ chClosed
    /\ Cardinality(deleted) = 1
    /\ Len(got) = 2
    /\ Range(got) = DOMAIN table

----------------------------------------------------------------------------
(* GetAll: claim C11, under SpecGetAll *)

\* The collection after the first m rows of the result were decoded into it:
\* the items it held, then the value of each row, in result order.
C11_Decoded(m) ==
    coll.c0 \o [i \in 1..m |-> lastWrite[coll.order[i]].v]

\* C11 (GetAll): GetAll visits the rows in result order and asks the collection
\* for one fresh target per row.  With no failure it returns nil and has appended
\* exactly one item per row of the table, in result order.  At the first scan
\* error it returns that error with the items of the rows before the failing one;
\* at the first decode error it returns that error with the items of the rows
\* before the failing one followed by the target created for the failing row.
\* No later row is processed in either case.
C11_GetAllStopsAtFirstError ==
    last.op = "GetAll" =>
        LET n == Len(coll.order) IN
        /\ last.fault = "none" =>
              /\ last.err = Nil
              /\ n = Cardinality(DOMAIN table)
              /\ coll.items = C11_Decoded(n)
        /\ last.fault = "scan" =>
              /\ last.err = ErrScan
              /\ coll.items = C11_Decoded(coll.at - 1)
        /\ last.fault = "decode" =>
              /\ last.err = ErrSyntax
              /\ coll.items = Append(C11_Decoded(coll.at - 1), NewTarget)

\* A GetAll over two rows into a collection that held an item, whose first
\* decode failed: the target of the failing row is kept, the second row is not visited.
C11_Witness ==
    /\ last.op = "GetAll"
    /\ last.fault = "decode"
    /\ Len(coll.order) = 2
    /\ coll.at = 1
    /\ coll.c0 # <<>>
    /\ coll.items = Append(coll.c0, NewTarget)
    /\ last.err = ErrSyntax

----------------------------------------------------------------------------
(* Use after Close: claim C12, under SpecClosed *)

C12_StoreOps == {"Get", "GetAll", "Add", "Set", "Update", "Delete"}

\* A step of Get, GetAll, Add, Set, Update or Delete on a Store that Close has
\* been called on returns a non-nil error and leaves the table as it was.
C12_Step ==
    (Closed /\ last'.op \in C12_StoreOps) =>
        /\ last'.err # Nil
        /\ table' = table

\* C12 (use after teardown): once Close has been called on a Store, every later
\* Get, GetAll, Add, Set, Update or Delete on that Store returns a non-nil error
\* and leaves the table contents unchanged.
C12_UseAfterCloseFails == [][C12_Step]_vars

\* An Update of a key that has a row, after Close: it is refused by the closed
\* handle and the row still holds what it held.
C12_Witness ==
    /\ Closed
    /\ last.op = "Update"
    /\ last.fault = "none"
    /\ last.err = ErrStmtClosed
    /\ last.k \in DOMAIN table
    /\ lastWrite[last.k].op # "Update"

----------------------------------------------------------------------------
(* Concurrent Update, Delete, Set and Add: claim C13, under SpecRace *)

\* The goroutines whose statement executes in this step.
C13_Executing == {p \in Procs : procs[p].pc = "called" /\ procs'[p].pc = "executed"}

\* A key gets a row only in the step of a Set or an Add.  The statement of an
\* Update returns nil exactly when the key has a row at that moment and
\* store.ErrNoRows otherwise; the statement of a Delete likewise, and leaves
\* the key without a row.
C13_Step ==
    /\ ~(DOMAIN table' \subseteq DOMAIN table) =>
          \E p \in C13_Executing : procs[p].op \in {"Set", "Add"}
    /\ \A p \in C13_Executing :
          /\ procs[p].op = "Update" =>
                /\ procs'[p].err = IF procs[p].k \in DOMAIN table THEN Nil ELSE ErrNoRows
                /\ DOMAIN table' = DOMAIN table
          /\ procs[p].op = "Delete" =>
                /\ procs'[p].err = IF procs[p].k \in DOMAIN table THEN Nil ELSE ErrNoRows
                /\ procs[p].k \notin DOMAIN table'

\* A key whose Delete took effect, with no Set or Add of it taking effect
\* afterwards, has no row; and an Update has returned nil or store.ErrNoRows.
C13_DeletedStaysAbsent ==
    /\ \A k \in deleted : k \notin DOMAIN table
    /\ \A p \in Procs :
          (procs[p].op = "Update" /\ procs[p].pc # "called") =>
              procs[p].err \in {Nil, ErrNoRows}

\* C13 (concurrency): Update and Delete never create a row under any
\* interleaving of concurrent Update(k, .), Delete(k), Set and Add: each takes
\* effect as one atomic statement and the set of keys grows only in a Set or Add
\* step.  If Delete(k) returns nil and no Set or Add of k takes effect afterwards,
\* k has no row at the end even when an Update(k, .) was in flight, and that
\* Update returns nil (it took effect while the row was there) or NotFound
\* (store.ErrNoRows).
C13_UpdateDeleteNeverCreate == [][C13_Step]_vars /\ []C13_DeletedStaysAbsent

\* A Delete of the key returned nil, an Update of the same key by another
\* goroutine returned store.ErrNoRows, and the key has no row.
C13_Witness ==
    \E p, q \in Procs :
        /\ procs[p].op = "Delete" /\ procs[p].pc = "idle" /\ procs[p].err = Nil
        /\ procs[q].op = "Update" /\ procs[q].pc = "idle" /\ procs[q].err = ErrNoRows
        /\ procs[q].k = procs[p].k
        /\ procs[p].k \in deleted
        /\ procs[p].k \notin DOMAIN table

============================================================================
